---- MODULE Spec2Model ----
(***************************************************************************)
(* A model of the Board class of tictactoe.py: the 3x3 grid, its string    *)
(* encoding, cell mutation with validation, line matching, successor       *)
(* generation and move diffing.                                            *)
(*                                                                         *)
(* A Python list is a TLA+ sequence (Python index i is TLA+ index i + 1);  *)
(* a Python str is a sequence of one-character strings, so "" is << >>;    *)
(* None is << >>; a Python tuple is a TLA+ tuple.                          *)
(***************************************************************************)
EXTENDS Integers, Sequences, FiniteSets, TLC

VARIABLES
    board,   \* self.board of the Board object under test (list of rows)
    other,   \* the grid of a second Board object (a candidate successor)
    w,       \* the encoded string the Board was constructed from
    op,      \* the name of the last operation called
    args,    \* the arguments of the last mutating call
    ret,     \* what the last operation returned
    prev,    \* self.board before the last operation
    turn,    \* TicTacToeEnv.turn: True when player_1 is to step
    counter, \* the step counter of simulate
    pc       \* where simulate is: "loop", "done"; "no_env" without a TicTacToeEnv

\* the state of the TicTacToeEnv around the board
env == <<turn, counter, pc>>

vars == <<board, other, w, op, args, ret, prev, turn, counter, pc>>

----------------------------------------------------------------------------
(* Bounds of the model *)

\* how far outside the grid the row and col inputs of safe_set_value reach
MaxOff == 1
\* the largest value offered to safe_set_value (0, 1, 2 and one illegal value)
MaxValue == 3
\* the largest number of marks on a board built by successive safe_set_value calls
MaxMarks == 3
\* the longest string handed to Board(encoded_string)
MaxLen == 10

----------------------------------------------------------------------------
(* Python primitives *)

None == << >>

EmptyStr == << >>

DigitChars == <<"0", "1", "2", "3", "4", "5", "6", "7", "8", "9">>

DigitValue == [c \in {DigitChars[k] : k \in 1..10} |-> CHOOSE d \in 0..9 : DigitChars[d + 1] = c]

\* int(c) of a one-character digit string
int(c) == DigitValue[c]

\* list(iterable): the elements, materialised as a list
list(iterable) == SubSeq(iterable, 1, Len(iterable))

\* str(n) of a one-digit integer
str(n) == DigitChars[n + 1]

\* list[i] with Python's negative indices
PyIndex(seq, i) == IF i >= 0 THEN seq[i + 1] ELSE seq[Len(seq) + i + 1]

\* list[i] = x
PyAssign(seq, i, x) ==
    IF i >= 0 THEN [seq EXCEPT ![i + 1] = x]
    ELSE [seq EXCEPT ![Len(seq) + i + 1] = x]

Min(a, b) == IF a < b THEN a ELSE b

\* random.sample(population, 1)[0]: any element of the list
sample(population) == {population[k] : k \in 1..Len(population)}

----------------------------------------------------------------------------
(* class Board *)

COLMAX == 3

ROWMAX == 3

increment(x) == x + 1

\* the decode offset forgotten
decrement_noop(x) == x

decrement(x) == x - 1

\* the fold of is_full done with add
multiply_add(x, y) == x + y

multiply(x, y) == x * y

\* [input_list[i:i+3] for i in range(0, len(input_list), 3)]
prepare_board_input_from_list(input_list) ==
    list([k \in 1..((Len(input_list) + 2) \div 3) |->
        SubSeq(input_list, 3 * (k - 1) + 1, Min(3 * k, Len(input_list)))])

decode_board_string(board_string) ==
    LET char_list == list(board_string)
        int_list == list([i \in 1..Len(char_list) |-> int(char_list[i])])
        int_list_reset == list([i \in 1..Len(int_list) |-> decrement(int_list[i])])
    IN  prepare_board_input_from_list(int_list_reset)

_encode_board_object_list(board_as_list) ==
    IF \E i \in 1..Len(board_as_list) : board_as_list[i] \notin {0, 1, 2}
    THEN EmptyStr
    ELSE list([i \in 1..Len(board_as_list) |-> str(increment(board_as_list[i]))])

reset == <<<<0, 0, 0>>, <<0, 0, 0>>, <<0, 0, 0>>>>

\* the lower bound of the row check dropped
is_cell_valid_nolower(row, col) ==
    /\ row < ROWMAX
    /\ col < COLMAX /\ col >= 0

is_cell_valid(row, col) ==
    /\ row < ROWMAX /\ row >= 0
    /\ col < COLMAX /\ col >= 0

is_board_valid(b) ==
    /\ Len(b) = ROWMAX
    /\ \A r \in 1..Len(b) : Len(b[r]) = COLMAX
    /\ \A i \in 0..(ROWMAX - 1), j \in 0..(COLMAX - 1) : is_cell_valid(i, j)

\* Board(encoded_string): the grid of the new object, and whether the
\* constructor's assert passed
Board(encoded_string) ==
    LET decoded == decode_board_string(encoded_string)
    IN  IF encoded_string = EmptyStr
        THEN [board |-> reset, ok |-> TRUE]
        ELSE [board |-> decoded, ok |-> is_board_valid(decoded)]

is_cell_empty(b, row, col) == PyIndex(PyIndex(b, row), col) = 0

is_set_value_valid(b, row, col, value) ==
    IF ~is_cell_valid(row, col) THEN FALSE
    ELSE IF ~(value \in {1, 2}) THEN FALSE
    ELSE IF ~is_cell_empty(b, row, col) THEN FALSE
    ELSE TRUE

get_value(b, row, col) == PyIndex(PyIndex(b, row), col)

set_value(b, row, col, value) ==
    PyAssign(b, row, PyAssign(PyIndex(b, row), col, value))

\* the return value, and self.board after the call
safe_set_value(b, row, col, value) ==
    IF ~is_set_value_valid(b, row, col, value)
    THEN [ret |-> FALSE, board |-> b]
    ELSE [ret |-> TRUE, board |-> set_value(b, row, col, value)]

Directions == {"N", "S", "E", "W", "NE", "SE", "SW", "NW"}

get_cell_index_adjacent(origin_row, origin_col, direction) ==
    LET new ==
            CASE direction = "N"  -> <<origin_row - 1, origin_col>>
              [] direction = "S"  -> <<origin_row + 1, origin_col>>
              [] direction = "E"  -> <<origin_row, origin_col + 1>>
              [] direction = "W"  -> <<origin_row - 1, origin_col>>
              [] direction = "NE" -> <<origin_row - 1, origin_col + 1>>
              [] direction = "SE" -> <<origin_row + 1, origin_col + 1>>
              [] direction = "SW" -> <<origin_row + 1, origin_col - 1>>
              [] OTHER            -> <<origin_row - 1, origin_col - 1>>
    IN  IF ~is_cell_valid(new[1], new[2]) THEN None ELSE new

_is_three_match_in_line(b, origin_row, origin_col, direction) ==
    LET first_value == get_value(b, origin_row, origin_col)
        \* the lines of line_list stay on the board, so neither step is None
        next1 == get_cell_index_adjacent(origin_row, origin_col, direction)
        second_value == get_value(b, next1[1], next1[2])
        next2 == get_cell_index_adjacent(next1[1], next1[2], direction)
        third_value == get_value(b, next2[1], next2[2])
    IN  IF first_value = 0 THEN <<FALSE, -1>>
        ELSE IF first_value # second_value THEN <<FALSE, -1>>
        ELSE IF second_value # third_value THEN <<FALSE, -1>>
        ELSE <<TRUE, first_value>>

line_list ==
    << <<0, 0, "E">>, <<1, 0, "E">>, <<2, 0, "E">>,
       <<0, 0, "S">>, <<0, 1, "S">>, <<0, 2, "S">>,
       <<0, 0, "SE">>, <<2, 0, "NE">> >>

RECURSIVE AllThreeMatchesFrom(_, _)
\* the loop of get_all_three_matches from the k-th line on
AllThreeMatchesFrom(b, k) ==
    IF k > Len(line_list) THEN << >>
    ELSE LET line == line_list[k]
             m == _is_three_match_in_line(b, line[1], line[2], line[3])
         IN  IF m[1]
             THEN <<<<line[1], line[2], line[3], m[2]>>>> \o AllThreeMatchesFrom(b, k + 1)
             ELSE AllThreeMatchesFrom(b, k + 1)

get_all_three_matches(b) == AllThreeMatchesFrom(b, 1)

\* the last match reported instead of the first
three_match_exists_last(b) ==
    LET three_match_list == get_all_three_matches(b)
    IN  IF Len(three_match_list) > 0
        THEN <<TRUE, three_match_list[Len(three_match_list)][4]>>
        ELSE <<FALSE, -1>>

three_match_exists(b) ==
    LET three_match_list == get_all_three_matches(b)
    IN  IF Len(three_match_list) > 0
        THEN <<TRUE, three_match_list[1][4]>>
        ELSE <<FALSE, -1>>

is_board_reachable(b) == Len(get_all_three_matches(b)) <= 1

\* the cells in the order of the nested loops over range(ROWMAX), range(COLMAX)
CellOrder == list([k \in 1..(ROWMAX * COLMAX) |-> <<(k - 1) \div COLMAX, (k - 1) % COLMAX>>])

count_nonempty_cells(b) ==
    Cardinality({k \in 1..Len(CellOrder) : ~is_cell_empty(b, CellOrder[k][1], CellOrder[k][2])})

\* the tie given to the second player
which_value_is_next_ge(b) ==
    LET count_X == Cardinality({k \in 1..Len(CellOrder) : PyIndex(PyIndex(b, CellOrder[k][1]), CellOrder[k][2]) = 1})
        count_O == Cardinality({k \in 1..Len(CellOrder) : PyIndex(PyIndex(b, CellOrder[k][1]), CellOrder[k][2]) = 2})
    IN  IF count_X >= count_O THEN 2 ELSE 1

which_value_is_next(b) ==
    LET count_X == Cardinality({k \in 1..Len(CellOrder) : get_value(b, CellOrder[k][1], CellOrder[k][2]) = 1})
        count_O == Cardinality({k \in 1..Len(CellOrder) : get_value(b, CellOrder[k][1], CellOrder[k][2]) = 2})
    IN  IF count_X > count_O THEN 2 ELSE 1

_to_list(b) == list([k \in 1..Len(CellOrder) |-> get_value(b, CellOrder[k][1], CellOrder[k][2])])

encode(b) == _encode_board_object_list(_to_list(b))

equals(b, other_board) == encode(b) = encode(other_board)

RECURSIVE NextStatesFrom(_, _, _, _)
\* the nested loops of next_available_states from the k-th cell on
NextStatesFrom(self_string, next_value, k, new_board_list) ==
    IF k > Len(CellOrder) THEN new_board_list
    ELSE LET i == CellOrder[k][1]
             j == CellOrder[k][2]
             new_board == Board(self_string).board
         IN  IF is_cell_empty(new_board, i, j)
             THEN NextStatesFrom(self_string, next_value, k + 1,
                      Append(new_board_list, safe_set_value(new_board, i, j, next_value).board))
             ELSE NextStatesFrom(self_string, next_value, k + 1, new_board_list)

\* the is_cell_empty test of the loop dropped
next_available_states_nocheck(b) ==
    list([k \in 1..Len(CellOrder) |->
        safe_set_value(Board(encode(b)).board, CellOrder[k][1], CellOrder[k][2],
                       which_value_is_next(b)).board])

next_available_states(b) ==
    NextStatesFrom(encode(b), which_value_is_next(b), 1, << >>)

RECURSIVE FirstObservedFrom(_, _)
FirstObservedFrom(b, k) ==
    IF k > Len(CellOrder) THEN None
    ELSE IF ~is_cell_empty(b, CellOrder[k][1], CellOrder[k][2])
         THEN <<CellOrder[k][1], CellOrder[k][2], get_value(b, CellOrder[k][1], CellOrder[k][2])>>
         ELSE FirstObservedFrom(b, k + 1)

get_first_observed_move(b) == FirstObservedFrom(b, 1)

\* the subtraction taken the other way round
diff_swapped(b, o) ==
    LET self_encoded == list([i \in 1..Len(encode(b)) |-> int(encode(b)[i])])
        other_encoded == list([i \in 1..Len(encode(o)) |-> int(encode(o)[i])])
        result == list([i \in 1..Min(Len(self_encoded), Len(other_encoded)) |->
                          self_encoded[i] - other_encoded[i]])
        diff_board_input == _encode_board_object_list(result)
    IN  IF diff_board_input = EmptyStr THEN None
        ELSE Board(diff_board_input).board

\* None, or the grid of the diff board
diff(b, o) ==
    LET self_string == encode(b)
        other_string == encode(o)
        self_encoded == list([i \in 1..Len(self_string) |-> int(self_string[i])])
        other_encoded == list([i \in 1..Len(other_string) |-> int(other_string[i])])
        \* zip stops at the shorter list
        result == list([i \in 1..Min(Len(self_encoded), Len(other_encoded)) |->
                          other_encoded[i] - self_encoded[i]])
        diff_board_input == _encode_board_object_list(result)
    IN  IF diff_board_input = EmptyStr THEN None
        ELSE Board(diff_board_input).board

is_valid_transition(b, o) ==
    LET d == diff(b, o)
    IN  IF d = None THEN FALSE
        ELSE count_nonempty_cells(d) = 1

extract_move_transition(b, o) ==
    LET d == diff(b, o)
    IN  IF ~is_valid_transition(b, o) THEN <<-1, -1, -1>>
        ELSE get_first_observed_move(d)

RECURSIVE reduce(_, _)
\* functools.reduce(multiply, list) of a non-empty list, left to right
reduce(seq, k) ==
    IF k = 1 THEN seq[1] ELSE multiply(reduce(seq, k - 1), seq[k])

apply_reduce(b) == reduce(_to_list(b), Len(_to_list(b)))

\* a board never reported full
is_full_never(b) == FALSE

is_full(b) == apply_reduce(b) # 0

get_game_over_conditions(b) ==
    LET m == three_match_exists(b)
    IN  IF m[1] THEN <<TRUE, m[2]>>
        ELSE IF is_full(b) THEN <<TRUE, -1>>
        ELSE <<FALSE, -1>>

\* [''.join(p) for p in product('123', repeat=9)]
generate_board_string_universe == [1..9 -> {"1", "2", "3"}]

----------------------------------------------------------------------------
(* class Player *)

\* the values TicTacToeEnv.__init__ gives player_1 and player_2
PlayerValues == {1, 2}

\* the judgment that scores every state that is not over with 0 turned
\* into one that looks one reply ahead
make_value_judgment_one_ply(value, board_state) ==
    LET goc == get_game_over_conditions(board_state)
        replies == next_available_states(board_state)
    IN  IF ~goc[1]
        THEN IF \E k \in 1..Len(replies) :
                    /\ get_game_over_conditions(replies[k])[1]
                    /\ get_game_over_conditions(replies[k])[2] \notin {-1, value}
             THEN -1 ELSE 0
        ELSE IF goc[2] = value THEN 1 ELSE -1

\* the judgment with 0 for a finished state the owner has not won
make_value_judgment_zero(value, board_state) ==
    LET goc == get_game_over_conditions(board_state)
    IN  IF ~goc[1] THEN 0
        ELSE IF goc[2] = value THEN 1 ELSE 0

\* self.value is the owner's mark
make_value_judgment(value, board_state) ==
    LET goc == get_game_over_conditions(board_state)
    IN  IF ~goc[1] THEN 0
        ELSE IF goc[2] = value THEN 1 ELSE -1

value_to_string(value) ==
    IF value = 1 THEN "X"
    ELSE IF value = 2 THEN "O"
    ELSE IF value = 0 THEN " "
    ELSE value

\* str(n) of an integer of one digit, with its sign
StrOfInt(n) == IF n < 0 THEN <<"-", str(0 - n)>> ELSE <<str(n)>>

\* float(s) of such a string
float(s) == IF s[1] = "-" THEN 0 - int(s[2]) ELSE int(s[1])

\* ord(c) of the characters of such strings
ord == [c \in {"-"} \cup {DigitChars[k] : k \in 1..10} |->
            IF c = "-" THEN 45 ELSE 48 + DigitValue[c]]

\* a < b on str: the first differing character decides, a proper prefix
\* is smaller
StrLess(a, b) ==
    \/ \E k \in 1..Min(Len(a), Len(b)) :
           /\ \A j \in 1..(k - 1) : a[j] = b[j]
           /\ ord[a[k]] < ord[b[k]]
    \/ /\ Len(a) < Len(b)
       /\ \A j \in 1..Len(a) : a[j] = b[j]

\* max(seq) of a non-empty list of str
max(seq) ==
    seq[CHOOSE k \in 1..Len(seq) : \A j \in 1..Len(seq) : ~StrLess(seq[k], seq[j])]

\* seq.index(x), counted from 1
index(seq, x) ==
    CHOOSE k \in 1..Len(seq) : seq[k] = x /\ \A j \in 1..(k - 1) : seq[j] # x

\* the rows of the DataFrame, in the order of next_available_states
assess_next_states(b, value) ==
    CHOOSE next_state_assessment \in
        {list([k \in 1..Len(next_states) |->
            [board_string |-> encode(next_states[k]),
             next_move |-> value_to_string(value),
             value_judgment |-> StrOfInt(make_value_judgment(value, next_states[k]))]]) :
         next_states \in {next_available_states(b)}} : TRUE

\* the moves random.sample can make select_move_naive return
select_move_naive(b) ==
    UNION {{extract_move_transition(b, random_next_state) :
                random_next_state \in sample(next_states)} :
           next_states \in {next_available_states(b)}}

\* next_state_assessment['value_judgment'].tolist()
tolist(next_state_assessment) ==
    list([k \in 1..Len(next_state_assessment) |-> next_state_assessment[k].value_judgment])

\* seq.index(x) taken from the end of the list
index_last(seq, x) ==
    CHOOSE k \in 1..Len(seq) : seq[k] = x /\ \A j \in (k + 1)..Len(seq) : seq[j] # x

\* the winning row taken from the end of the assessment
select_move_last(b, value) ==
    UNION {UNION {UNION {
        IF float(value_max) * 10000 > 9999
        THEN {extract_move_transition(b,
                  Board(next_state_assessment[index_last(value_list, value_max)].board_string).board)}
        ELSE select_move_naive(b) :
        value_max \in {max(value_list)}} :
        value_list \in {tolist(next_state_assessment)} \ {<< >>}} :
        next_state_assessment \in {assess_next_states(b, value)}}

\* the random choice made whatever the assessment says
select_move_random(b, value) == select_move_naive(b)

\* the first row of the maximum taken whatever the maximum is
select_move_first(b, value) ==
    UNION {UNION {UNION {
        {extract_move_transition(b,
             Board(next_state_assessment[index(value_list, value_max)].board_string).board)} :
        value_max \in {max(value_list)}} :
        value_list \in {tolist(next_state_assessment)} \ {<< >>}} :
        next_state_assessment \in {assess_next_states(b, value)}}

\* the moves select_move can return, with next_state_assessment, value_list
\* and value_max each computed once; max() of an empty list raises, and no
\* move is returned
select_move(b, value) ==
    UNION {UNION {UNION {
        IF float(value_max) * 10000 > 9999
        THEN {extract_move_transition(b,
                  Board(next_state_assessment[index(value_list, value_max)].board_string).board)}
        ELSE select_move_naive(b) :
        value_max \in {max(value_list)}} :
        value_list \in {tolist(next_state_assessment)} \ {<< >>}} :
        next_state_assessment \in {assess_next_states(b, value)}}

----------------------------------------------------------------------------
(* Every board of the string universe, constructed and then queried.      *)
(* The queries do not write self.board, so each is called on the freshly   *)
(* constructed object.                                                     *)

InitUniverse ==
    /\ w \in generate_board_string_universe
    /\ board = Board(w).board
    /\ ret = Board(w).ok
    /\ op = "Board"
    /\ args = << >>
    /\ other = reset
    /\ prev = Board(w).board
    \* a Board used on its own, outside a TicTacToeEnv
    /\ turn = TRUE /\ counter = 0 /\ pc = "no_env"

Encode ==
    /\ op = "Board"
    /\ op' = "encode"
    /\ ret' = encode(board)
    /\ prev' = board
    /\ UNCHANGED <<board, other, w, args, turn, counter, pc>>

NextAvailableStates ==
    /\ op = "Board"
    /\ op' = "next_available_states"
    /\ ret' = next_available_states(board)
    /\ prev' = board
    /\ UNCHANGED <<board, other, w, args, turn, counter, pc>>

ThreeMatchExists ==
    /\ op = "Board"
    /\ op' = "three_match_exists"
    /\ ret' = three_match_exists(board)
    /\ prev' = board
    /\ UNCHANGED <<board, other, w, args, turn, counter, pc>>

GetGameOverConditions ==
    /\ op = "Board"
    /\ op' = "get_game_over_conditions"
    /\ ret' = get_game_over_conditions(board)
    /\ prev' = board
    /\ UNCHANGED <<board, other, w, args, turn, counter, pc>>

IsBoardReachable ==
    /\ op = "Board"
    /\ op' = "is_board_reachable"
    /\ ret' = is_board_reachable(board)
    /\ prev' = board
    /\ UNCHANGED <<board, other, w, args, turn, counter, pc>>

\* a Player with the given value judging the constructed board
MakeValueJudgment(value) ==
    /\ op = "Board"
    /\ op' = "make_value_judgment"
    /\ args' = <<value>>
    /\ ret' = make_value_judgment(value, board)
    /\ prev' = board
    /\ UNCHANGED <<board, other, w, turn, counter, pc>>

NextUniverse ==
    \/ Encode
    \/ NextAvailableStates
    \/ ThreeMatchExists
    \/ GetGameOverConditions
    \/ IsBoardReachable
    \/ \E value \in PlayerValues : MakeValueJudgment(value)

SpecUniverse == InitUniverse /\ [][NextUniverse]_vars

----------------------------------------------------------------------------
(* A Board() mutated by safe_set_value calls with arbitrary arguments *)

InitReset ==
    /\ w = EmptyStr
    /\ board = Board(EmptyStr).board
    /\ ret = Board(EmptyStr).ok
    /\ op = "Board"
    /\ args = << >>
    /\ other = Board(EmptyStr).board
    /\ prev = Board(EmptyStr).board
    \* a Board used on its own, outside a TicTacToeEnv
    /\ turn = TRUE /\ counter = 0 /\ pc = "no_env"

RowInputs == (0 - MaxOff)..(ROWMAX - 1 + MaxOff)

ColInputs == (0 - MaxOff)..(COLMAX - 1 + MaxOff)

ValueInputs == 0..MaxValue

SafeSetValue(row, col, value) ==
    /\ op' = "safe_set_value"
    /\ args' = <<row, col, value>>
    /\ prev' = board
    /\ LET r == safe_set_value(board, row, col, value)
       IN  board' = r.board /\ ret' = r.ret
    /\ UNCHANGED <<other, w, turn, counter, pc>>

NextSet ==
    \E row \in RowInputs, col \in ColInputs, value \in ValueInputs :
        \* a rejected call leaves the board as it was, so the calls after it
        \* are the calls after the state before it
        /\ ret = TRUE
        /\ count_nonempty_cells(board) < MaxMarks
        /\ SafeSetValue(row, col, value)

SpecSet == InitReset /\ [][NextSet]_vars

----------------------------------------------------------------------------
(* A placement on a copy of a board of the universe, as in the loop body   *)
(* of next_available_states, and the move recovered by diffing             *)

SetOnCopy(row, col, value) ==
    /\ op = "Board"
    /\ is_cell_empty(board, row, col)
    /\ op' = "set_on_copy"
    /\ args' = <<row, col, value>>
    /\ LET new_board == Board(encode(board)).board
           r == safe_set_value(new_board, row, col, value)
       IN  other' = r.board /\ ret' = r.ret
    /\ prev' = board
    /\ UNCHANGED <<board, w, turn, counter, pc>>

ExtractMoveTransition ==
    /\ op \in {"set_on_copy", "safe_set_value", "set_other"}
    /\ op' = "extract_move_transition"
    /\ ret' = extract_move_transition(board, other)
    /\ prev' = board
    /\ UNCHANGED <<board, other, w, args, turn, counter, pc>>

NextMove ==
    \/ \E row \in 0..(ROWMAX - 1), col \in 0..(COLMAX - 1), value \in {1, 2} :
           SetOnCopy(row, col, value)
    \/ ExtractMoveTransition

SpecMove == InitUniverse /\ [][NextMove]_vars

----------------------------------------------------------------------------
(* Two Board() objects, each filled by safe_set_value calls, then diffed   *)

SetOther(row, col, value) ==
    /\ op' = "set_other"
    /\ args' = <<row, col, value>>
    /\ prev' = board
    /\ LET r == safe_set_value(other, row, col, value)
       IN  other' = r.board /\ ret' = r.ret
    /\ UNCHANGED <<board, w, turn, counter, pc>>

Diff ==
    /\ op \in {"safe_set_value", "set_other"}
    /\ op' = "diff"
    /\ ret' = diff(board, other)
    /\ prev' = board
    /\ UNCHANGED <<board, other, w, args, turn, counter, pc>>

IsValidTransition ==
    /\ op \in {"safe_set_value", "set_other"}
    /\ op' = "is_valid_transition"
    /\ ret' = is_valid_transition(board, other)
    /\ prev' = board
    /\ UNCHANGED <<board, other, w, args, turn, counter, pc>>

NextPair ==
    \/ \E row \in 0..(ROWMAX - 1), col \in 0..(COLMAX - 1), value \in {1, 2} :
           /\ op \in {"Board", "safe_set_value", "set_other"}
           /\ count_nonempty_cells(board) + count_nonempty_cells(other) < MaxMarks
           /\ \/ SafeSetValue(row, col, value)
              \/ SetOther(row, col, value)
    \/ Diff
    \/ IsValidTransition
    \/ ExtractMoveTransition

SpecPair == InitReset /\ [][NextPair]_vars

----------------------------------------------------------------------------
(* Play from the empty board: a successor is drawn as select_move_naive    *)
(* draws it, reduced to a move and handed to receive_play                  *)

ReceivePlay(row, col, value) ==
    /\ op' = "receive_play"
    /\ args' = <<row, col, value>>
    /\ prev' = board
    /\ LET r == safe_set_value(board, row, col, value)
       IN  board' = r.board /\ ret' = r.ret
    /\ UNCHANGED <<other, w>>

Play ==
    \E random_next_state \in sample(next_available_states(board)) :
        \E random_next_move \in {extract_move_transition(board, random_next_state)} :
            /\ ReceivePlay(random_next_move[1], random_next_move[2], random_next_move[3])
            /\ UNCHANGED env

NextPlace == Play

SpecPlace == InitReset /\ [][NextPlace]_vars

\* the turn taken whether or not the game is over
LegalStep_nostop == Play

\* one turn of the loop of simulate: no step once the game is over
LegalStep ==
    /\ ~get_game_over_conditions(board)[1]
    /\ Play

SpecLegal == InitReset /\ [][LegalStep]_vars

----------------------------------------------------------------------------
(* Board(encoded_string) on strings of any length up to MaxLen over the    *)
(* digit below the alphabet, a digit of it, and the digit above it         *)

DecodeChars == {"0", "2", "4"}

DecodeInputs == UNION {[1..n -> DecodeChars] : n \in 0..MaxLen}

InitDecode ==
    /\ w \in DecodeInputs
    \* a failed assert leaves no object
    /\ board = IF Board(w).ok THEN Board(w).board ELSE None
    /\ ret = Board(w).ok
    /\ op = "Board"
    /\ args = << >>
    /\ other = reset
    /\ prev = None
    /\ turn = TRUE /\ counter = 0 /\ pc = "no_env"

EncodeConstructed ==
    /\ op = "Board"
    /\ ret = TRUE
    /\ Encode

SpecDecode == InitDecode /\ [][EncodeConstructed]_vars

----------------------------------------------------------------------------
(* The cell queries of Board called with coordinates in and around the     *)
(* grid, on the boards of the first MaxMarks placements                    *)

\* seq[i] raises IndexError: "list index out of range"
IndexOutOfRange(seq, i) == ~(0 - Len(seq) <= i /\ i < Len(seq))

\* a call that returned value, and a call that raised
Returned(value) == [raised |-> FALSE, value |-> value]

Raised == [raised |-> TRUE, value |-> None]

\* the board is one left by the constructor or by a placement
Placed == op \in {"Board", "receive_play"}

IsCellEmpty(row, col) ==
    /\ Placed
    /\ op' = "is_cell_empty"
    /\ args' = <<row, col>>
    /\ ret' = IF IndexOutOfRange(board, row) THEN Raised
              ELSE IF IndexOutOfRange(PyIndex(board, row), col) THEN Raised
              ELSE Returned(is_cell_empty(board, row, col))
    /\ prev' = board
    /\ UNCHANGED <<board, other, w, turn, counter, pc>>

GetValue(row, col) ==
    /\ Placed
    /\ op' = "get_value"
    /\ args' = <<row, col>>
    \* assert (self.is_cell_valid(row, col))
    /\ ret' = IF ~is_cell_valid(row, col) THEN Raised
              ELSE Returned(get_value(board, row, col))
    /\ prev' = board
    /\ UNCHANGED <<board, other, w, turn, counter, pc>>

GetCellIndexAdjacent(origin_row, origin_col, direction) ==
    /\ Placed
    /\ op' = "get_cell_index_adjacent"
    /\ args' = <<origin_row, origin_col, direction>>
    /\ ret' = get_cell_index_adjacent(origin_row, origin_col, direction)
    /\ prev' = board
    /\ UNCHANGED <<board, other, w, turn, counter, pc>>

PlaceSome ==
    /\ Placed
    /\ count_nonempty_cells(board) < MaxMarks
    /\ Play

NextCell ==
    \/ PlaceSome
    \/ \E row \in RowInputs, col \in ColInputs : IsCellEmpty(row, col)
    \/ \E row \in RowInputs, col \in ColInputs : GetValue(row, col)
    \/ \E origin_row \in 0..(ROWMAX - 1), origin_col \in 0..(COLMAX - 1),
          direction \in Directions :
            GetCellIndexAdjacent(origin_row, origin_col, direction)

SpecCell == InitReset /\ [][NextCell]_vars

----------------------------------------------------------------------------
(* TicTacToeEnv("Red", "Blue").simulate() *)

LIMIT == 30

\* TicTacToeEnv.__init__, and simulate up to its loop
InitEnv ==
    /\ w = EmptyStr
    /\ board = Board(EmptyStr).board
    /\ ret = Board(EmptyStr).ok
    /\ op = "Board"
    /\ args = << >>
    /\ other = Board(EmptyStr).board
    /\ prev = Board(EmptyStr).board
    /\ turn = TRUE
    /\ counter = 0
    /\ pc = "loop"

\* the step that leaves the turn with the same player
Step_noflip ==
    /\ pc = "loop"
    /\ counter < LIMIT
    /\ ~get_game_over_conditions(board)[1]
    /\ \E move \in select_move(board, IF turn THEN 1 ELSE 2) :
           ReceivePlay(move[1], move[2], move[3])
    /\ turn' = turn
    /\ counter' = counter + 1
    /\ pc' = "loop"

\* one pass of the loop that calls step()
Step ==
    /\ pc = "loop"
    /\ counter < LIMIT
    /\ ~get_game_over_conditions(board)[1]
    /\ \E move \in select_move(board, IF turn THEN 1 ELSE 2) :
           ReceivePlay(move[1], move[2], move[3])
    /\ turn' = ~turn
    /\ counter' = counter + 1
    /\ pc' = "loop"

\* the loop left, by its condition or by the break
SimulateExit ==
    /\ pc = "loop"
    /\ ~(counter < LIMIT /\ ~get_game_over_conditions(board)[1])
    /\ op' = "simulate"
    /\ ret' = IF counter < LIMIT THEN "break" ELSE "LIMIT"
    /\ pc' = "done"
    /\ UNCHANGED <<board, other, w, args, prev, turn, counter>>

Next ==
    \/ Step
    \/ SimulateExit

Spec == InitEnv /\ [][Next]_vars

----------------------------------------------------------------------------
(* The properties checked *)

\* the cells of the grid, row-major
RowMajor ==
    << <<0, 0>>, <<0, 1>>, <<0, 2>>,
       <<1, 0>>, <<1, 1>>, <<1, 2>>,
       <<2, 0>>, <<2, 1>>, <<2, 2>> >>

Cells == {RowMajor[k] : k \in 1..9}

At(b, c) == b[c[1] + 1][c[2] + 1]

Count(b, v) == Cardinality({c \in Cells : At(b, c) = v})

\* rows top to bottom, columns left to right, main diagonal, anti-diagonal
Lines ==
    << <<<<0, 0>>, <<0, 1>>, <<0, 2>>>>,
       <<<<1, 0>>, <<1, 1>>, <<1, 2>>>>,
       <<<<2, 0>>, <<2, 1>>, <<2, 2>>>>,
       <<<<0, 0>>, <<1, 0>>, <<2, 0>>>>,
       <<<<0, 1>>, <<1, 1>>, <<2, 1>>>>,
       <<<<0, 2>>, <<1, 2>>, <<2, 2>>>>,
       <<<<0, 0>>, <<1, 1>>, <<2, 2>>>>,
       <<<<0, 2>>, <<1, 1>>, <<2, 0>>>> >>

\* the mark filling line l, or 0
LineMark(b, l) ==
    IF At(b, l[1]) # 0 /\ At(b, l[1]) = At(b, l[2]) /\ At(b, l[2]) = At(b, l[3])
    THEN At(b, l[1])
    ELSE 0

Hits(b) == {k \in 1..8 : LineMark(b, Lines[k]) # 0}

FirstHit(b) == CHOOSE k \in Hits(b) : \A j \in Hits(b) : k <= j

IsFull(b) == \A c \in Cells : At(b, c) # 0

\* C1: on every board built from the empty board by placing
\* which_value_is_next()'s mark into an empty cell, the number of 1s minus
\* the number of 2s is 0 or 1.
C1_TurnParity == Count(board, 1) - Count(board, 2) \in {0, 1}

\* a placement made on a board that already held a matching line
C1_Witness ==
    /\ op = "receive_play"
    /\ ret = TRUE
    /\ Hits(prev) # {}
    /\ Count(board, 1) = 4 /\ Count(board, 2) = 4

\* C2: every board reached by legal alternating play, no move being made
\* once the game is over, has at most one matching line, so that
\* is_board_reachable() is true of it.
C2_AtMostOneLine == Cardinality(Hits(board)) <= 1 /\ is_board_reachable(board)

\* C3: next_available_states() returns one board per empty cell, in
\* row-major order of the filled cell; each differs from the board in that
\* one cell, which holds 1 iff the 1s are no more than the 2s, else 2; the
\* board itself is left as it was.
C3_NextStates ==
    op = "next_available_states" =>
        LET IsOpen(c) == At(board, c) = 0
            open == SelectSeq(RowMajor, IsOpen)
            mark == IF Count(board, 1) <= Count(board, 2) THEN 1 ELSE 2
        IN  /\ Len(ret) = Len(open)
            /\ \A k \in 1..Len(open) :
                   ret[k] = [board EXCEPT ![open[k][1] + 1][open[k][2] + 1] = mark]
            /\ board = prev

\* successors of a board with four empty cells on which the second mark is next
C3_Witness ==
    /\ op = "next_available_states"
    /\ Len(ret) = 4
    /\ Count(board, 1) = 3 /\ Count(board, 2) = 2
    /\ At(ret[4], <<2, 2>>) = 2

\* C4: when t is s with safe_set_value(r, c, m) applied for an empty cell
\* (r, c) of s and a mark m, s.extract_move_transition(t) is (r, c, m).
C4_ExtractInverse ==
    op = "extract_move_transition" =>
        ((/\ args[1] \in 0..2 /\ args[2] \in 0..2 /\ args[3] \in {1, 2}
          /\ At(board, <<args[1], args[2]>>) = 0)
         => /\ other = [board EXCEPT ![args[1] + 1][args[2] + 1] = args[3]]
            /\ ret = args)

\* the second mark placed in the last cell of a board holding other marks
C4_Witness ==
    /\ op = "extract_move_transition"
    /\ ret = <<2, 2, 2>>
    /\ At(board, <<0, 0>>) = 2 /\ At(board, <<1, 1>>) = 1
    /\ At(other, <<2, 2>>) = 2

\* C5: for every 9-character string w over '1', '2', '3', Board(w) is
\* constructed without failure and Board(w).encode() is w; the board built
\* from the encoding of a board equals that board.
C5_RoundTrip ==
    /\ op = "Board" => ret = TRUE
    /\ op = "encode" =>
           /\ ret = w
           /\ Board(ret).ok
           /\ equals(Board(ret).board, board)
           /\ \A c \in Cells : At(board, c) \in {0, 1, 2}

\* the string '222333111', which no play produces
C5_Witness ==
    /\ op = "encode"
    /\ w = <<"2", "2", "2", "3", "3", "3", "1", "1", "1">>
    /\ board = <<<<1, 1, 1>>, <<2, 2, 2>>, <<0, 0, 0>>>>

\* C6: three_match_exists() returns (True, v) with v the mark of the first
\* line, in the order rows, columns, main diagonal, anti-diagonal, whose
\* three cells are equal and non-empty, and (False, -1) iff there is none.
C6_Winner ==
    op = "three_match_exists" =>
        IF Hits(board) = {}
        THEN ret = <<FALSE, -1>>
        ELSE ret = <<TRUE, LineMark(board, Lines[FirstHit(board)])>>

\* two simultaneous lines of different marks: row 1 of 2s before row 2 of 1s
C6_Witness ==
    /\ op = "three_match_exists"
    /\ LineMark(board, Lines[2]) = 2
    /\ LineMark(board, Lines[3]) = 1
    /\ ret = <<TRUE, 2>>

\* C7: get_game_over_conditions() reports game over iff the board is full or
\* a matching line exists; it reports the mark of the line when there is
\* one, -1 for a full board without a line, and (False, -1) otherwise.
C7_GameOver ==
    op = "get_game_over_conditions" =>
        /\ ret[1] <=> (IsFull(board) \/ Hits(board) # {})
        /\ Hits(board) # {} => ret = <<TRUE, LineMark(board, Lines[FirstHit(board)])>>
        /\ (Hits(board) = {} /\ IsFull(board)) => ret = <<TRUE, -1>>
        /\ (Hits(board) = {} /\ ~IsFull(board)) => ret = <<FALSE, -1>>

\* a full board without a matching line
C7_Witness ==
    /\ op = "get_game_over_conditions"
    /\ IsFull(board)
    /\ Hits(board) = {}
    /\ ret = <<TRUE, -1>>

\* C8: safe_set_value(row, col, value) returns False and changes no cell
\* when row or col is outside 0..2, value is not 1 or 2, or the cell is not
\* empty; otherwise it returns True and sets that one cell to value.
C8_SafeSet ==
    op = "safe_set_value" =>
        IF \/ args[1] \notin 0..2
           \/ args[2] \notin 0..2
           \/ args[3] \notin {1, 2}
           \/ At(prev, <<args[1], args[2]>>) # 0
        THEN ret = FALSE /\ board = prev
        ELSE /\ ret = TRUE
             /\ board = [prev EXCEPT ![args[1] + 1][args[2] + 1] = args[3]]

\* a legal mark refused on an occupied cell, after two accepted placements
C8_Witness ==
    /\ op = "safe_set_value"
    /\ ret = FALSE
    /\ args[1] \in 0..2 /\ args[2] \in 0..2 /\ args[3] \in {1, 2}
    /\ At(prev, <<args[1], args[2]>>) # 0
    /\ Count(board, 0) = 7

\* C9: s.diff(t) is None whenever a marked cell of s holds another mark, or
\* nothing, in t.
C9_DiffNone ==
    op = "diff" =>
        ((\E c \in Cells : At(board, c) # 0 /\ At(other, c) # At(board, c))
         => ret = None)

\* t is s with exactly one empty cell filled by a mark
OnePlacement(s, t) ==
    \E c \in Cells, m \in {1, 2} :
        At(s, c) = 0 /\ t = [s EXCEPT ![c[1] + 1][c[2] + 1] = m]

\* C10: when t is not s with exactly one empty cell filled by a mark,
\* is_valid_transition is False and extract_move_transition returns
\* (-1, -1, -1).
C10_InvalidTransition ==
    /\ (op = "is_valid_transition" /\ ~OnePlacement(board, other)) => ret = FALSE
    /\ (op = "extract_move_transition" /\ ~OnePlacement(board, other))
           => ret = <<-1, -1, -1>>

\* C11: Board(encoded_string) fails whenever the string is not exactly 9
\* characters long or holds a character outside '1', '2', '3'.
C11_MalformedRejected ==
    op = "Board" =>
        ((Len(w) # 9 \/ \E i \in 1..Len(w) : w[i] \notin {"1", "2", "3"})
         => ret = FALSE)

\* the same for strings of 9 characters only
C11_NineCharsRejected ==
    (op = "Board" /\ Len(w) = 9) =>
        ((\E i \in 1..Len(w) : w[i] \notin {"1", "2", "3"}) => ret = FALSE)

\* the state is over: a line is filled or no cell is empty
Terminal(b) == Hits(b) # {} \/ IsFull(b)

\* the mark of the first filled line, or 0 when no line is filled
Winner(b) == IF Hits(b) = {} THEN 0 ELSE LineMark(b, Lines[FirstHit(b)])

\* C12 as stated: on a terminal state make_value_judgment returns 1 if the
\* winner is the owner's mark and 0 otherwise.
C12_TerminalScoreZero ==
    (op = "make_value_judgment" /\ Terminal(board)) =>
        ret = IF Winner(board) = args[1] THEN 1 ELSE 0

\* C12 amended: on a terminal state make_value_judgment returns 1 if the
\* winner is the owner's mark and -1 otherwise (the other mark's line, or a
\* full board without a line).
C12_TerminalScore ==
    (op = "make_value_judgment" /\ Terminal(board)) =>
        ret = IF Winner(board) = args[1] THEN 1 ELSE -1

\* a full board without a line, and a board won by the other mark, judged
C12_Witness ==
    /\ op = "make_value_judgment"
    /\ ret = -1
    /\ \/ IsFull(board) /\ Hits(board) = {}
       \/ Winner(board) = 3 - args[1]

\* the states after one reply of the owner's opponent to b
Replies(b, owner) ==
    {[b EXCEPT ![c[1] + 1][c[2] + 1] = 3 - owner] : c \in {d \in Cells : At(b, d) = 0}}

\* some immediate reply of the opponent ends the game with a winner other
\* than the owner
Trap(b, owner) ==
    /\ ~Terminal(b)
    /\ \E r \in Replies(b, owner) : Winner(r) \notin {0, owner}

C16_OutOfRangeFails ==
    op \in {"is_cell_empty", "get_value"} =>
        (ret.raised <=> (args[1] \notin 0..2 \/ args[2] \notin 0..2))

\* the mandated table of deltas
Delta ==
    [direction \in Directions |->
        CASE direction = "N"  -> <<-1, 0>>
          [] direction = "S"  -> <<1, 0>>
          [] direction = "E"  -> <<0, 1>>
          [] direction = "W"  -> <<0, -1>>
          [] direction = "NE" -> <<-1, 1>>
          [] direction = "SE" -> <<1, 1>>
          [] direction = "SW" -> <<1, -1>>
          [] direction = "NW" -> <<-1, -1>>]

\* C17: get_cell_index_adjacent returns the origin plus the delta of the
\* direction (N=(-1,0), S=(+1,0), E=(0,+1), W=(0,-1), NE=(-1,+1),
\* SE=(+1,+1), SW=(+1,-1), NW=(-1,-1)) when that cell is on the board and
\* None when it is not, and no two directions lead to the same cell.
C17_DirectionTable ==
    op = "get_cell_index_adjacent" =>
        LET target == <<args[1] + Delta[args[3]][1], args[2] + Delta[args[3]][2]>>
        IN  /\ ret = IF target \in Cells THEN target ELSE None
            /\ ret # None =>
                   \A direction \in Directions \ {args[3]} :
                       get_cell_index_adjacent(args[1], args[2], direction) # ret

\* a step of simulate has just been made
Stepped == op = "receive_play" /\ pc = "loop"

\* the value of the player that made it: the turn has been flipped since
Stepper == IF turn THEN 2 ELSE 1

\* the value of the player the next step calls
ToMove == IF turn THEN 1 ELSE 2

Put(b, c, v) == [b EXCEPT ![c[1] + 1][c[2] + 1] = v]

Candidates(b) == {c \in Cells : At(b, c) = 0}

\* the empty cells whose filling by v ends the game won by v
WinningCells(b, v) == {c \in Candidates(b) : Winner(Put(b, c, v)) = v}

\* the first cell of S in row-major order
FirstCell(S) ==
    RowMajor[CHOOSE k \in 1..9 : RowMajor[k] \in S /\ \A j \in 1..(k - 1) : RowMajor[j] \notin S]

Score(s, v) == IF ~Terminal(s) THEN 0 ELSE IF Winner(s) = v THEN 1 ELSE -1

\* the moves to the candidates of the maximum score
MaxMoves(b, v) ==
    {<<c[1], c[2], v>> : c \in {d \in Candidates(b) :
        \A e \in Candidates(b) : Score(Put(b, e, v), v) <= Score(Put(b, d, v), v)}}

C18_WinTaken ==
    (Stepped /\ WinningCells(prev, Stepper) # {}) =>
        /\ args = <<FirstCell(WinningCells(prev, Stepper))[1],
                    FirstCell(WinningCells(prev, Stepper))[2], Stepper>>
        /\ Winner(board) = Stepper
        /\ get_game_over_conditions(board) = <<TRUE, Stepper>>

\* player_2 taking a win
C18_Witness ==
    /\ Stepped
    /\ Stepper = 2
    /\ WinningCells(prev, Stepper) # {}
    /\ get_game_over_conditions(board) = <<TRUE, 2>>

\* C19: simulate makes one mark per step, so at most 9 steps; after the
\* ninth the game is over; while it is not over a step is possible; and the
\* loop is left by the break of game over, never by counter reaching LIMIT.
C19_Termination ==
    pc # "no_env" =>
        /\ counter = Count(board, 1) + Count(board, 2)
        /\ counter <= 9
        /\ counter = 9 => get_game_over_conditions(board)[1]
        /\ counter < LIMIT
        /\ (pc = "loop" /\ ~get_game_over_conditions(board)[1]) =>
               select_move(board, ToMove) # {}
        /\ pc = "done" =>
               /\ get_game_over_conditions(board)[1]
               /\ op = "simulate" /\ ret = "break"

\* a game that took all nine steps, ended
C19_Witness ==
    /\ pc = "done"
    /\ counter = 9
    /\ ret = "break"

\* C20: the move of a step is not (-1,-1,-1) and is accepted; it places the
\* stepping player's value into a cell that was empty and changes no other
\* cell; the turn flag agrees with which_value_is_next().
C20_OneAcceptedMove ==
    /\ Stepped =>
           /\ args # <<-1, -1, -1>>
           /\ ret = TRUE
           /\ args[3] = Stepper
           /\ <<args[1], args[2]>> \in Cells
           /\ At(prev, <<args[1], args[2]>>) = 0
           /\ board = Put(prev, <<args[1], args[2]>>, args[3])
    /\ pc # "no_env" => (turn <=> which_value_is_next(board) = 1)

\* player_2's step
C20_Witness ==
    /\ Stepped
    /\ ret = TRUE
    /\ args[3] = 2
    /\ turn = TRUE
    /\ counter = 4

\* C21: on every board reached by legal alternating play that stops at
\* game over, all matching lines carry the same mark, no line of 1s stands
\* with a line of 2s, and a winning value 1 or 2 reported by
\* get_game_over_conditions is the mark placed by the most recent move.
C21_WinnerConsistency ==
    /\ \A k \in Hits(board), j \in Hits(board) :
           LineMark(board, Lines[k]) = LineMark(board, Lines[j])
    /\ ~(/\ \E k \in Hits(board) : LineMark(board, Lines[k]) = 1
         /\ \E j \in Hits(board) : LineMark(board, Lines[j]) = 2)
    /\ get_game_over_conditions(board)[2] \in {1, 2} =>
           /\ op = "receive_play"
           /\ ret = TRUE
           /\ get_game_over_conditions(board) = <<TRUE, args[3]>>
           /\ At(prev, <<args[1], args[2]>>) = 0
           /\ At(board, <<args[1], args[2]>>) = args[3]

\* a last move that fills two lines at once, reported won by its mark
C21_Witness ==
    /\ op = "receive_play"
    /\ Cardinality(Hits(board)) = 2
    /\ Hits(prev) = {}
    /\ get_game_over_conditions(board) = <<TRUE, args[3]>>

====
